---- MODULE Spec2Model ----
(***************************************************************************)
(* Model of model_training.py: the pix2pix training script.                *)
(*                                                                         *)
(* Two state machines share the module.                                    *)
(*   Spec      the process run: restore, fit (test example, the training   *)
(*             loop over the shuffled, repeated training stream, previews, *)
(*             checkpoints), export of the saved models, and a restart of  *)
(*             the process after it ended.                                 *)
(*   SpecLoad  the image pair loader and the augmentation pipeline applied *)
(*             to one file path.                                           *)
(* Model weights and optimizer state are abstracted to the number of       *)
(* updates they have received; an image is abstracted to its shape, its    *)
(* value range and the geometric transform that produced it.               *)
(***************************************************************************)
EXTENDS Integers, Sequences, FiniteSets, TLC

VARIABLES
    \* ---- the process run (Spec) ----
    cfg,          \* the run's inputs: steps and the files on disk
    pc,           \* "start", "fit", "loop", "done", "error"
    run,          \* number of the current process run
    lastExit,     \* how the previous process run ended: "none", "done", "error"
    errKind,      \* kind of the fatal error that ended this run, or "none"
    ckptDir,      \* training_checkpoints/ckpt-*: the saved checkpoints, oldest first
    exported,     \* saved_model/{generator,discriminator}, or NoExport
    model,        \* in-memory generator, discriminator, optimizers, save counter
    step,         \* index the loop's enumerate() yields next
    trainCalls,   \* train_step calls of this run
    batches,      \* training batches this run's loop has consumed
    example,      \* test file of the held-out example, 0 before it is fetched
    exampleFetches, \* reads of the test stream in this run
    previews,     \* generate_images calls of this run
    timeLogs,     \* 'Time taken for 1000 steps' prints of this run
    start,        \* fit's local start (a clock reading)
    clock,        \* wall clock, one tick per training iteration
    remaining,    \* training files the current traversal has not yet listed
    buffer,       \* content of the shuffle buffer
    epochLog,     \* files emitted by the current traversal, in order
    \* ---- the loader and the augmentation (SpecLoad) ----
    lpc,          \* "idle", "ready", "trained", "tested"
    file,         \* [root, split, base] of the input path handed to load
    fs,           \* paths of the target files that exist on disk
    rawIn,        \* decoded shape <<h, w, c>> of the input file
    rawTgt,       \* decoded shape <<h, w, c>> of a target file
    derived,      \* the target path load derived
    sample        \* what load_image_train / load_image_test returned

runVars == <<cfg, pc, run, lastExit, errKind, ckptDir, exported, model, step,
             trainCalls, batches, example, exampleFetches, previews, timeLogs,
             start, clock, remaining, buffer, epochLog>>
loadVars == <<lpc, file, fs, rawIn, rawTgt, derived, sample>>
vars == <<runVars, loadVars>>

----------------------------------------------------------------------------
\* Program constants
BUFFER_SIZE == 500
IMG_WIDTH == 512
IMG_HEIGHT == 512
CROP_CHANNELS == 3
JITTER_SIZE == 542
PreviewEvery == 1000
CheckpointEvery == 5000
PixelMax == 255

\* Bounds of the model
MaxSteps == 3      \* steps of a short run: 0..MaxSteps
MaxTrain == 3      \* training files of a short run: 1..MaxTrain
MaxTest == 2       \* test files: 1..MaxTest
MaxK == 1          \* long runs last about k*CheckpointEvery steps, k in 1..MaxK
MaxRuns == 2       \* process runs

Min(a, b) == IF a < b THEN a ELSE b

\* The subsets of S with exactly k elements (k small).
RECURSIVE KSubsets(_, _)
KSubsets(S, k) ==
    IF k = 0 THEN {{}}
    ELSE UNION {{T \cup {x} : x \in S \ T} : T \in KSubsets(S, k - 1)}

NoExport == [gen |-> -1, disc |-> -1]

----------------------------------------------------------------------------
\* The inputs of a run.  badTrain / badTest name the one input file whose
\* derived output file is missing (0: every pair is complete).
ShortConfigs ==
    {c \in [steps : 0..MaxSteps, nTrain : 1..MaxTrain, badTrain : 0..MaxTrain,
            nTest : 1..MaxTest, badTest : 0..MaxTest] :
        c.badTrain <= c.nTrain /\ c.badTest <= c.nTest}

\* The smallest training set the shuffle buffer cannot hold, with one file
\* whose output is missing.
OverConfigs ==
    [steps : {2}, nTrain : {BUFFER_SIZE + 1},
     badTrain : {1}, nTest : {1}, badTest : {0}]

LongConfigs ==
    [steps : {k * CheckpointEvery + d : k \in 1..MaxK, d \in {-1, 0, 1}},
     nTrain : {1}, badTrain : {0}, nTest : {MaxTest}, badTest : {0}]

Configs == ShortConfigs \cup OverConfigs \cup LongConfigs

TrainFiles == 1..cfg.nTrain
TestFiles == 1..cfg.nTest

\* generator = Generator(), discriminator = Discriminator(), the two Adam
\* optimizers and the Checkpoint object, as constructed at process start.
FreshModel == [gen |-> 0, disc |-> 0, genOpt |-> 0, discOpt |-> 0, saveCounter |-> 0]

----------------------------------------------------------------------------
\* fit: the schedule of the loop

\* A loop that runs one iteration too many.
LoopContinuesInclusive(s, n) == s <= n

\* for step, ... in train_ds.repeat().take(steps).enumerate(): the loop body
\* runs while the stream of `steps` elements is not exhausted.
LoopContinues(s, n) == s < n

\* A loop counter resumed from the number of updates of the restored weights.
LoopStartFromRestored(m) == m.gen

\* enumerate() counts from 0, whatever checkpoint.restore loaded into m.
LoopStart(m) == 0

\* A preview shown after the last step of each thousand instead of before the
\* first.
PreviewDueAfterStep(s) == (s + 1) % PreviewEvery = 0

\* if step % 1000 == 0:
PreviewDue(s) == s % PreviewEvery = 0

\* if step != 0: print('Time taken for 1000 steps: ...')
TimeLogDue(s) == s # 0

\* A checkpoint schedule keyed on the loop index instead of the steps completed.
CheckpointDueOnIndex(s) == s % CheckpointEvery = 0

\* if (step + 1) % 5000 == 0: checkpoint.save(...)
CheckpointDue(s) == (s + 1) % CheckpointEvery = 0

----------------------------------------------------------------------------
\* train_step: the two optimizer updates

\* generator_optimizer.apply_gradients(zip(generator_gradients,
\*                                         generator.trainable_variables))
ApplyGeneratorGradients(m) ==
    [m EXCEPT !.gen = @ + 1, !.genOpt = @ + 1]

\* The discriminator's gradients applied to the generator's variables.
ApplyDiscriminatorGradientsToGenerator(m) ==
    [m EXCEPT !.gen = @ + 1, !.discOpt = @ + 1]

\* discriminator_optimizer.apply_gradients(zip(discriminator_gradients,
\*                                             discriminator.trainable_variables))
ApplyDiscriminatorGradients(m) ==
    [m EXCEPT !.disc = @ + 1, !.discOpt = @ + 1]

train_step(m) == ApplyDiscriminatorGradients(ApplyGeneratorGradients(m))

\* checkpoint.save: the save counter is incremented, then the whole state
\* (save counter included) is written.
CheckpointState(m) == [m EXCEPT !.saveCounter = @ + 1]

----------------------------------------------------------------------------
\* The training stream: list_files -> map(load_image_train) -> shuffle(500)
\* -> batch(1) -> prefetch, repeated by fit.

\* A shuffle buffer of a single element.
FillCountBufferOfOne(buf, rem) == Min(1 - Cardinality(buf), Cardinality(rem))

\* shuffle(BUFFER_SIZE) reads from upstream until the buffer holds BUFFER_SIZE
\* elements or upstream is exhausted, before it emits an element.
FillCount(buf, rem) == Min(BUFFER_SIZE - Cardinality(buf), Cardinality(rem))

\* A stream repeated before it is shuffled: a new listing begins as soon as the
\* listing in progress is exhausted.
TraversalEndedUpstream(buf, rem) == rem = {}

\* repeat() opens a new traversal once the traversal in progress has ended:
\* upstream exhausted and the shuffle buffer drained.
TraversalEnded(buf, rem) == buf = {} /\ rem = {}

\* One fetch of the next training batch.  list_files lists the files in a
\* random order, so the files read now are any FillCount of those remaining.
\* Reading the file whose output is missing makes the mapped load raise, and the
\* error surfaces at this fetch.  Otherwise one element of the buffer, chosen at
\* random, is emitted.
FetchOutcomes ==
    LET fresh == TraversalEnded(buffer, remaining)
        rem0 == IF fresh THEN TrainFiles ELSE remaining
        buf0 == IF fresh THEN {} ELSE buffer
        log0 == IF fresh THEN <<>> ELSE epochLog
        k == FillCount(buf0, rem0)
    IN UNION {
         LET read == rem0 \ left
             buf1 == buf0 \cup read
         IN IF cfg.badTrain \in read
            THEN {[ok |-> FALSE, rem |-> left, buf |-> buf1, log |-> log0]}
            ELSE {[ok |-> TRUE, rem |-> left, buf |-> buf1 \ {x},
                   log |-> Append(log0, x)] : x \in buf1}
         : left \in KSubsets(rem0, Cardinality(rem0) - k)}

----------------------------------------------------------------------------
\* The process run

RunInit ==
    /\ pc = "start"
    /\ run = 1
    /\ lastExit = "none"
    /\ errKind = "none"
    /\ ckptDir = <<>>
    /\ exported = NoExport
    /\ model = FreshModel
    /\ step = 0
    /\ trainCalls = 0
    /\ batches = 0
    /\ example = 0
    /\ exampleFetches = 0
    /\ previews = <<>>
    /\ timeLogs = <<>>
    /\ start = 0
    /\ clock = 0
    /\ remaining = {}
    /\ buffer = {}
    /\ epochLog = <<>>

\* The loader is not exercised by the process run.
LoadIdle ==
    /\ lpc = "idle"
    /\ file = <<>>
    /\ fs = {}
    /\ rawIn = <<>>
    /\ rawTgt = <<>>
    /\ derived = <<>>
    /\ sample = [ok |-> FALSE]

Init ==
    /\ cfg \in Configs
    /\ RunInit
    /\ LoadIdle

Fatal(kind) ==
    /\ pc' = "error"
    /\ errKind' = kind

\* checkpoint.restore(tf.train.latest_checkpoint(checkpoint_dir)): loads the
\* most recent checkpoint; with no checkpoint it restores nothing.
Restore ==
    /\ pc = "start"
    /\ model' = IF ckptDir = <<>> THEN model ELSE ckptDir[Len(ckptDir)].state
    /\ pc' = "fit"
    /\ UNCHANGED <<cfg, run, lastExit, errKind, ckptDir, exported, step, trainCalls,
                   batches, example, exampleFetches, previews, timeLogs, start,
                   clock, remaining, buffer, epochLog>>
    /\ UNCHANGED loadVars

\* A checkpoint that cannot be read makes restore raise.
RestoreError ==
    /\ pc = "start"
    /\ ckptDir # <<>>
    /\ Fatal("restore")
    /\ UNCHANGED <<cfg, run, lastExit, ckptDir, exported, model, step, trainCalls,
                   batches, example, exampleFetches, previews, timeLogs, start,
                   clock, remaining, buffer, epochLog>>
    /\ UNCHANGED loadVars

\* fit, up to the loop: next(iter(test_ds.take(1))) loads the first file of
\* the test listing, which list_files orders at random; start = time.time().
FitEnter ==
    /\ pc = "fit"
    /\ \E f \in TestFiles :
         /\ f # cfg.badTest
         /\ example' = f
    /\ exampleFetches' = exampleFetches + 1
    /\ start' = clock
    /\ step' = LoopStart(model)
    /\ pc' = "loop"
    /\ UNCHANGED <<cfg, run, lastExit, errKind, ckptDir, exported, model, trainCalls,
                   batches, previews, timeLogs, clock, remaining, buffer, epochLog>>
    /\ UNCHANGED loadVars

\* The first test file is the one without an output file: load raises.
FitEnterLoadError ==
    /\ pc = "fit"
    /\ cfg.badTest \in TestFiles
    /\ exampleFetches' = exampleFetches + 1
    /\ Fatal("load")
    /\ UNCHANGED <<cfg, run, lastExit, ckptDir, exported, model, step, trainCalls,
                   batches, example, previews, timeLogs, start, clock, remaining,
                   buffer, epochLog>>
    /\ UNCHANGED loadVars

\* The preview branch of one iteration (lines 136-145).
PreviewsAt(s) ==
    IF PreviewDue(s)
    THEN Append(previews, [step |-> s, example |-> example, gen |-> model.gen])
    ELSE previews

TimeLogsAt(s) ==
    IF PreviewDue(s) /\ TimeLogDue(s)
    THEN Append(timeLogs, [step |-> s, elapsed |-> clock - start])
    ELSE timeLogs

StartAt(s) == IF PreviewDue(s) THEN clock ELSE start

\* One iteration of the loop: fetch a batch, preview if due, train_step,
\* checkpoint if due.
Iterate ==
    /\ pc = "loop"
    /\ LoopContinues(step, cfg.steps)
    /\ \E o \in FetchOutcomes :
         /\ o.ok
         /\ remaining' = o.rem
         /\ buffer' = o.buf
         /\ epochLog' = o.log
    /\ batches' = batches + 1
    /\ previews' = PreviewsAt(step)
    /\ timeLogs' = TimeLogsAt(step)
    /\ start' = StartAt(step)
    /\ trainCalls' = trainCalls + 1
    /\ clock' = clock + 1
    /\ LET trained == train_step(model)
       IN IF CheckpointDue(step)
          THEN /\ model' = CheckpointState(trained)
               /\ ckptDir' = Append(ckptDir, [state |-> CheckpointState(trained),
                                              run |-> run,
                                              completed |-> trainCalls + 1])
          ELSE /\ model' = trained
               /\ ckptDir' = ckptDir
    /\ step' = step + 1
    /\ UNCHANGED <<cfg, pc, run, lastExit, errKind, exported, example, exampleFetches>>
    /\ UNCHANGED loadVars

\* The fetch of the batch raises: the loop body is not entered.
IterateLoadError ==
    /\ pc = "loop"
    /\ LoopContinues(step, cfg.steps)
    /\ \E o \in FetchOutcomes :
         /\ ~o.ok
         /\ remaining' = o.rem
         /\ buffer' = o.buf
         /\ epochLog' = o.log
    /\ Fatal("load")
    /\ UNCHANGED <<cfg, run, lastExit, ckptDir, exported, model, step, trainCalls,
                   batches, example, exampleFetches, previews, timeLogs, start, clock>>
    /\ UNCHANGED loadVars

\* train_step raises (a numerical or resource failure): the batch was fetched
\* and the preview, if due, was shown; no update is applied and nothing is saved.
IterateTrainError ==
    /\ pc = "loop"
    /\ LoopContinues(step, cfg.steps)
    /\ \E o \in FetchOutcomes :
         /\ o.ok
         /\ remaining' = o.rem
         /\ buffer' = o.buf
         /\ epochLog' = o.log
    /\ batches' = batches + 1
    /\ previews' = PreviewsAt(step)
    /\ timeLogs' = TimeLogsAt(step)
    /\ start' = StartAt(step)
    /\ Fatal("train")
    /\ UNCHANGED <<cfg, run, lastExit, ckptDir, exported, model, step, trainCalls,
                   example, exampleFetches, clock>>
    /\ UNCHANGED loadVars

\* An export that also runs when fit raised.
ExportEvenAfterError ==
    /\ \/ pc = "loop" /\ step >= cfg.steps
       \/ pc = "error"
    /\ exported' = [gen |-> model.gen, disc |-> model.disc]
    /\ pc' = "done"
    /\ UNCHANGED <<cfg, run, lastExit, errKind, ckptDir, model, step, trainCalls,
                   batches, example, exampleFetches, previews, timeLogs, start,
                   clock, remaining, buffer, epochLog>>
    /\ UNCHANGED loadVars

\* fit returns when the stream of `steps` elements is exhausted; the script
\* then saves the generator and the discriminator (lines 214-216).
Export ==
    /\ pc = "loop"
    /\ ~LoopContinues(step, cfg.steps)
    /\ exported' = [gen |-> model.gen, disc |-> model.disc]
    /\ pc' = "done"
    /\ UNCHANGED <<cfg, run, lastExit, errKind, ckptDir, model, step, trainCalls,
                   batches, example, exampleFetches, previews, timeLogs, start,
                   clock, remaining, buffer, epochLog>>
    /\ UNCHANGED loadVars

\* The script is run again: every object is constructed anew (lines 158-208);
\* only the files on disk are kept.
Restart ==
    /\ pc \in {"done", "error"}
    /\ run < MaxRuns
    /\ run' = run + 1
    /\ lastExit' = pc
    /\ pc' = "start"
    /\ errKind' = "none"
    /\ model' = FreshModel
    /\ step' = 0
    /\ trainCalls' = 0
    /\ batches' = 0
    /\ example' = 0
    /\ exampleFetches' = 0
    /\ previews' = <<>>
    /\ timeLogs' = <<>>
    /\ start' = 0
    /\ clock' = 0
    /\ remaining' = {}
    /\ buffer' = {}
    /\ epochLog' = <<>>
    /\ UNCHANGED <<cfg, ckptDir, exported>>
    /\ UNCHANGED loadVars

Next ==
    \/ Restore
    \/ RestoreError
    \/ FitEnter
    \/ FitEnterLoadError
    \/ Iterate
    \/ IterateLoadError
    \/ IterateTrainError
    \/ Export
    \/ Restart

Spec == Init /\ [][Next]_vars

----------------------------------------------------------------------------
\* The image pair loader and the augmentation pipeline

\* Paths are sequences of characters.
S_input == <<"i", "n", "p", "u", "t">>
S_output == <<"o", "u", "t", "p", "u", "t">>
S_jpg == <<"j", "p", "g">>
S_png == <<"p", "n", "g">>
S_dataset == <<"d", "a", "t", "a", "s", "e", "t">>
S_training == <<"t", "r", "a", "i", "n", "i", "n", "g">>
S_test == <<"t", "e", "s", "t">>
Slash == <<"/">>
Dot == <<".">>

\* Directories the script may live in, and basenames of the files in the
\* dataset, some of which hold the words the loader rewrites.
Roots == {Slash \o <<"r">>, Slash \o S_input, Slash \o <<"m">> \o S_jpg}
Bases == {<<"a">>, S_input \o <<"1">>, <<"a">> \o S_jpg}
Splits == {S_training, S_test}

\* os.path.join(dirname, 'dataset', <split>, 'input', '*.jpg'): a path the
\* glob matches.
InputPath(f) ==
    f.root \o Slash \o S_dataset \o Slash \o f.split \o Slash \o S_input
           \o Slash \o f.base \o Dot \o S_jpg

\* The counterpart of an input file by the dataset's naming convention:
\* dataset/<split>/output/<base>.png under the same root.
OutputPath(f) ==
    f.root \o Slash \o S_dataset \o Slash \o f.split \o Slash \o S_output
           \o Slash \o f.base \o Dot \o S_png

\* str.replace(old, new): every non-overlapping occurrence, left to right.
RECURSIVE Replace(_, _, _)
Replace(s, old, new) ==
    IF Len(s) < Len(old) THEN s
    ELSE IF SubSeq(s, 1, Len(old)) = old
         THEN new \o Replace(SubSeq(s, Len(old) + 1, Len(s)), old, new)
         ELSE <<Head(s)>> \o Replace(Tail(s), old, new)

\* path.replace('input', 'output'); path.replace('jpg', 'png')
TargetPath(path) == Replace(Replace(path, S_input, S_output), S_jpg, S_png)

\* A decoded image cast to float32: its shape, the range of its values, and
\* the geometric transform applied to it so far.
NoGeometry == [rh |-> 0, rw |-> 0, oy |-> 0, ox |-> 0, oc |-> 0, flip |-> FALSE]

Decoded(shape) ==
    [h |-> shape[1], w |-> shape[2], c |-> shape[3], lo |-> 0, hi |-> PixelMax,
     geo |-> NoGeometry]

\* What a loader call that raised leaves behind, and the value of sample
\* before any call.
Raised == [ok |-> FALSE]

\* load: reads and decodes the input file, derives the target path and reads
\* and decodes the file there; a missing target file makes read_file raise.
load(path, files, inShape, tgtShape) ==
    IF TargetPath(path) \notin files THEN Raised
    ELSE [ok |-> TRUE, input |-> Decoded(inShape), target |-> Decoded(tgtShape)]

ResizeOne(img, height, width) ==
    [img EXCEPT !.h = height, !.w = width, !.geo.rh = height, !.geo.rw = width]

\* resize: both images to height x width, nearest neighbour.
resize(p, height, width) ==
    [p EXCEPT !.input = ResizeOne(@, height, width),
              !.target = ResizeOne(@, height, width)]

CropOne(img, off) ==
    [img EXCEPT !.h = IMG_HEIGHT, !.w = IMG_WIDTH, !.c = CROP_CHANNELS,
                !.geo.oy = off.y, !.geo.ox = off.x, !.geo.oc = off.c]

\* tf.image.random_crop draws, per dimension, an offset in 0..(shape - size).
CropOffsets(img) ==
    [y : 0..(img.h - IMG_HEIGHT), x : 0..(img.w - IMG_WIDTH),
     c : 0..(img.c - CROP_CHANNELS)]

\* A crop that takes the window of the target at the origin instead of at the
\* offset drawn for the input.
random_crop_separately(p, off) ==
    [p EXCEPT !.input = CropOne(@, off),
              !.target = CropOne(@, [y |-> 0, x |-> 0, c |-> 0])]

\* random_crop: the two images are stacked (their shapes must agree) and one
\* window of size [2, IMG_HEIGHT, IMG_WIDTH, 3] is cut from the stack at the
\* offset drawn.
random_crop(p, off) ==
    [p EXCEPT !.input = CropOne(@, off), !.target = CropOne(@, off)]

Stackable(p) ==
    /\ p.input.h = p.target.h
    /\ p.input.w = p.target.w
    /\ p.input.c = p.target.c

FlipOne(img) == [img EXCEPT !.geo.flip = ~@]

\* The mirroring branch of random_jitter; mirror is tf.random.uniform(()) > 0.5.
flip_left_right(p, mirror) ==
    IF mirror THEN [p EXCEPT !.input = FlipOne(@), !.target = FlipOne(@)]
    ELSE p

NormalizeOne(img) ==
    [img EXCEPT !.lo = (2 * @) \div PixelMax - 1, !.hi = (2 * @) \div PixelMax - 1]

\* normalize: (x / 127.5) - 1 on both images.
normalize(p) ==
    [p EXCEPT !.input = NormalizeOne(@), !.target = NormalizeOne(@)]

\* The draws random_jitter can make on a loaded pair: none when the stack or
\* the crop raises.
JitterDraws(p) ==
    LET r == resize(p, JITTER_SIZE, JITTER_SIZE)
    IN IF Stackable(r) THEN CropOffsets(r.input) \X BOOLEAN ELSE {}

\* random_jitter: resize to 542x542, random crop to 512x512, random mirroring.
random_jitter(p, off, mirror) ==
    flip_left_right(random_crop(resize(p, JITTER_SIZE, JITTER_SIZE), off), mirror)

InputFiles == [root : Roots, split : Splits, base : Bases]

\* Target files that may be on disk: the counterparts, by the naming
\* convention, of files under these and a few more roots and basenames.
TargetFiles ==
    {OutputPath(f) : f \in [root : Roots \cup {Slash \o S_output, Slash \o <<"m">> \o S_png},
                            split : Splits,
                            base : Bases \cup {S_output \o <<"1">>, <<"a">> \o S_png}]}

InShapes == {<<600, 400, 3>>, <<300, 300, 1>>, <<512, 512, 4>>}
TgtShapes == {<<600, 400, 3>>, <<100, 700, 3>>, <<300, 300, 1>>, <<512, 512, 4>>}

\* The process run is not exercised by the loader.
RunIdle ==
    /\ cfg = [steps |-> 0, nTrain |-> 1, badTrain |-> 0, nTest |-> 1, badTest |-> 0]
    /\ RunInit

InitLoad ==
    /\ RunIdle
    /\ lpc = "ready"
    /\ file \in InputFiles
    /\ fs \in {{}} \cup {{t} : t \in TargetFiles}
    /\ rawIn \in InShapes
    /\ rawTgt \in TgtShapes
    /\ derived = <<>>
    /\ sample = Raised

\* load_image_train on the file: load, random_jitter, normalize.
LoadImageTrain ==
    /\ lpc = "ready"
    /\ derived' = TargetPath(InputPath(file))
    /\ LET p == load(InputPath(file), fs, rawIn, rawTgt)
       IN IF ~p.ok THEN sample' = Raised
          ELSE IF JitterDraws(p) = {} THEN sample' = Raised
          ELSE \E d \in JitterDraws(p) :
                 sample' = normalize(random_jitter(p, d[1], d[2]))
    /\ lpc' = "trained"
    /\ UNCHANGED <<file, fs, rawIn, rawTgt>>
    /\ UNCHANGED runVars

\* load_image_test on the file: load, resize to 512x512, normalize.
LoadImageTest ==
    /\ lpc = "ready"
    /\ derived' = TargetPath(InputPath(file))
    /\ LET p == load(InputPath(file), fs, rawIn, rawTgt)
       IN IF ~p.ok THEN sample' = Raised
          ELSE sample' = normalize(resize(p, IMG_HEIGHT, IMG_WIDTH))
    /\ lpc' = "tested"
    /\ UNCHANGED <<file, fs, rawIn, rawTgt>>
    /\ UNCHANGED runVars

NextLoad ==
    \/ LoadImageTrain
    \/ LoadImageTest

SpecLoad == InitLoad /\ [][NextLoad]_vars

----------------------------------------------------------------------------
\* Properties of the process run

Range(q) == {q[i] : i \in 1..Len(q)}

\* The checkpoints this process run has saved, and those it found on disk.
RunCheckpoints == SelectSeq(ckptDir, LAMBDA c : c.run = run)
PriorCheckpoints == SelectSeq(ckptDir, LAMBDA c : c.run < run)

\* The number of generator updates behind the weights this run started from.
RestoredUpdates ==
    IF PriorCheckpoints = <<>> THEN 0
    ELSE PriorCheckpoints[Len(PriorCheckpoints)].state.gen

\* C1: fit calls train_step exactly `steps` times, the loop counter running
\* through 0, 1, ..., steps-1 with one batch consumed per iteration, and then
\* returns: while the loop runs, the counter equals the number of train_step
\* calls and of batches consumed and never exceeds steps; when fit has returned,
\* exactly `steps` calls were made.
C1_FitRunsExactlySteps ==
    /\ pc \in {"start", "fit"} => trainCalls = 0 /\ batches = 0
    /\ pc = "loop" =>
         /\ step = trainCalls
         /\ step = batches
         /\ step <= cfg.steps
    /\ pc = "done" =>
         /\ trainCalls = cfg.steps
         /\ batches = cfg.steps
         /\ step = cfg.steps

\* Two training pairs and steps = 3: fit has returned after 3 training steps.
C1_Witness ==
    /\ pc = "done"
    /\ cfg.nTrain = 2
    /\ cfg.steps = 3
    /\ trainCalls = 3

\* C2: in one fit call a checkpoint is saved exactly when the number of
\* training steps completed in the call is a positive multiple of 5000, after
\* that step's update: the run's i-th checkpoint is saved at 5000*i completed
\* steps and holds the weights after 5000*i updates of this run, and the run has
\* saved floor(completed / 5000) checkpoints.
C2_CheckpointEvery5000 ==
    /\ Len(RunCheckpoints) = trainCalls \div CheckpointEvery
    /\ \A i \in 1..Len(RunCheckpoints) :
         /\ RunCheckpoints[i].completed = i * CheckpointEvery
         /\ RunCheckpoints[i].state.gen = (model.gen - trainCalls) + i * CheckpointEvery
         /\ RunCheckpoints[i].state.disc = (model.disc - trainCalls) + i * CheckpointEvery
    /\ pc = "done" => Len(RunCheckpoints) = cfg.steps \div CheckpointEvery

\* A run of 5001 steps has returned with one checkpoint saved.
C2_Witness ==
    /\ pc = "done"
    /\ cfg.steps = CheckpointEvery + 1
    /\ Len(RunCheckpoints) = 1
    /\ RunCheckpoints[1].state.gen = CheckpointEvery

\* C3 as claimed: in a run whose training glob matches an input file without
\* its output file, no train_step call and no generate_images call is ever
\* made, whatever the number of files and the order of the listing.
C3_LoadErrorBeforeAnyForwardPass ==
    cfg.badTrain # 0 =>
        /\ trainCalls = 0
        /\ previews = <<>>

\* C3 amended: when a training input file has no output file and the training
\* set holds at most BUFFER_SIZE files, no batch is delivered, no train_step and
\* no generate_images call is made, and the run completes only if steps = 0.
C3_LoadErrorWithinShuffleBuffer ==
    (cfg.badTrain # 0 /\ cfg.nTrain <= BUFFER_SIZE) =>
        /\ trainCalls = 0
        /\ batches = 0
        /\ previews = <<>>
        /\ model.gen = RestoredUpdates \/ pc = "start"
        /\ pc = "done" => cfg.steps = 0
        /\ (pc = "loop" /\ cfg.steps > 0) => ENABLED IterateLoadError /\ ~ENABLED Iterate

\* Three training files, one without its output: the first fetch of a training
\* batch has raised the load error.
C3_Witness ==
    /\ pc = "error"
    /\ errKind = "load"
    /\ cfg.nTrain = 3
    /\ cfg.badTrain = 2
    /\ example # 0
    /\ trainCalls = 0

C6_RestoreThenCountFromZero ==
    /\ pc \in {"fit", "loop", "done", "error"} /\ errKind # "restore" =>
         model.gen = RestoredUpdates + trainCalls
    /\ pc = "loop" => step = trainCalls
    /\ \A i \in 1..Len(previews) :
         /\ previews[i].step = (i - 1) * PreviewEvery
         /\ previews[i].gen = RestoredUpdates + previews[i].step
    /\ \A i \in 1..Len(RunCheckpoints) :
         /\ RunCheckpoints[i].completed = i * CheckpointEvery
         /\ RunCheckpoints[i].state.gen = RestoredUpdates + i * CheckpointEvery

\* A restarted run that restored weights with 5000 updates saves its own
\* checkpoint at its step 5000, when the weights have received 10000 updates.
C6_Witness ==
    /\ run = 2
    /\ RestoredUpdates = CheckpointEvery
    /\ Len(RunCheckpoints) = 1
    /\ RunCheckpoints[1].completed = CheckpointEvery
    /\ RunCheckpoints[1].state.gen = 2 * CheckpointEvery
    /\ Len(previews) > 1

\* C7: a fatal error ends the run: from the error state the only step is a
\* restart of the process, which leaves the checkpoints and the export as they
\* were; the export is written only by a run whose fit completed all `steps`
\* iterations; and the restore of a restarted process loads the last checkpoint
\* saved.
C7_FatalErrorAborts ==
    [][ /\ pc = "error" =>
            /\ pc' = "start"
            /\ run' = run + 1
            /\ ckptDir' = ckptDir
            /\ exported' = exported
            /\ trainCalls' = 0
        /\ exported' # exported =>
            /\ pc = "loop"
            /\ errKind = "none"
            /\ trainCalls = cfg.steps
            /\ pc' = "done"
        /\ (pc = "start" /\ pc' = "fit" /\ ckptDir # <<>>) =>
            model' = ckptDir[Len(ckptDir)].state
        /\ pc' = "error" => trainCalls' = trainCalls /\ ckptDir' = ckptDir
      ]_vars

\* A process restarted after a fatal error has restored the checkpoint saved
\* before the error.
C7_Witness ==
    /\ run = 2
    /\ lastExit = "error"
    /\ pc = "fit"
    /\ ckptDir # <<>>
    /\ model = ckptDir[Len(ckptDir)].state
    /\ exported = NoExport

\* The previews of the run: shown at the loop indices that are multiples of
\* 1000 and at no other, always of the one example fetched from the test stream
\* before the loop, and before that index's train_step (the generator has then
\* received exactly `step` updates of this run).
PreviewsOnSchedule ==
    /\ exampleFetches <= 1
    /\ pc \in {"loop", "done"} =>
         /\ exampleFetches = 1
         /\ example \in TestFiles
         /\ Len(previews) = (step + PreviewEvery - 1) \div PreviewEvery
    /\ \A i \in 1..Len(previews) :
         /\ previews[i].step = (i - 1) * PreviewEvery
         /\ previews[i].example = example
         /\ previews[i].gen = (model.gen - trainCalls) + previews[i].step

\* C9 as claimed: the previews are on schedule and each preview index also
\* logs the elapsed time.
C9_TimeLoggedAtEveryPreview ==
    /\ PreviewsOnSchedule
    /\ Len(timeLogs) = Len(previews)
    /\ \A i \in 1..Len(timeLogs) : timeLogs[i].step = previews[i].step

\* C9 amended: the previews are on schedule, and the elapsed time of the
\* preceding 1000 steps is logged at each preview index except index 0.
C9_PreviewSchedule ==
    /\ PreviewsOnSchedule
    /\ Len(timeLogs) = IF previews = <<>> THEN 0 ELSE Len(previews) - 1
    /\ \A i \in 1..Len(timeLogs) :
         /\ timeLogs[i].step = i * PreviewEvery
         /\ timeLogs[i].step = previews[i + 1].step
         /\ timeLogs[i].elapsed = PreviewEvery

\* The preview of index 1000 and its time log, with two test files on disk.
C9_Witness ==
    /\ pc = "loop"
    /\ cfg.nTest = 2
    /\ step > PreviewEvery
    /\ Len(previews) = 2
    /\ Len(timeLogs) = 1
    /\ previews[2].example = previews[1].example

\* C10: the batches fit consumes form full traversals of the training set:
\* the traversal in progress has emitted distinct files, as many as the batches
\* consumed since the last multiple of N, and every file is either still to be
\* listed, in the shuffle buffer or emitted, in exactly one of the three.
C10_FullTraversals ==
    LET n == cfg.nTrain
        seen == Range(epochLog)
    IN /\ Cardinality(seen) = Len(epochLog)
       /\ seen \subseteq TrainFiles
       /\ seen \cap buffer = {}
       /\ seen \cap remaining = {}
       /\ buffer \cap remaining = {}
       /\ Cardinality(buffer) <= BUFFER_SIZE
       /\ (batches > 0 /\ errKind # "load") =>
            /\ Len(epochLog) = batches - n * ((batches - 1) \div n)
            /\ seen \cup buffer \cup remaining = TrainFiles

\* Two training files: the second traversal has begun after a complete first.
C10_Witness ==
    /\ cfg.nTrain = 2
    /\ batches = 3
    /\ Len(epochLog) = 1
    /\ Cardinality(buffer) = 1

----------------------------------------------------------------------------
\* Properties of the loader and the augmentation

\* C4: for an input path <root>/dataset/<split>/input/<base>.jpg, load derives
\* the target path <root>/dataset/<split>/output/<base>.png, root and basename
\* unchanged.
C4_TargetPathKeepsRootAndBase ==
    lpc # "ready" => derived = OutputPath(file)

\* C8: the two images load_image_train returns are 512x512x3 and the result of
\* one geometric transform: both resized to 542x542, both cropped at the same
\* offset (ox, oy) with 0 <= ox, oy <= 30, and both mirrored or both not.
C8_JointAugmentation ==
    (lpc = "trained" /\ sample.ok) =>
        /\ sample.input.h = IMG_HEIGHT /\ sample.input.w = IMG_WIDTH
        /\ sample.input.c = CROP_CHANNELS
        /\ sample.target.h = IMG_HEIGHT /\ sample.target.w = IMG_WIDTH
        /\ sample.target.c = CROP_CHANNELS
        /\ sample.input.geo = sample.target.geo
        /\ sample.input.geo.rh = JITTER_SIZE /\ sample.input.geo.rw = JITTER_SIZE
        /\ sample.input.geo.oy \in 0..(JITTER_SIZE - IMG_HEIGHT)
        /\ sample.input.geo.ox \in 0..(JITTER_SIZE - IMG_WIDTH)
        /\ JITTER_SIZE - IMG_HEIGHT = 30 /\ JITTER_SIZE - IMG_WIDTH = 30

\* A pair of different raw sizes, cropped at offset (30, 7) and mirrored.
C8_Witness ==
    /\ lpc = "trained"
    /\ sample.ok
    /\ rawIn # rawTgt
    /\ sample.input.geo.flip
    /\ sample.target.geo.flip
    /\ sample.input.geo.ox = 30
    /\ sample.target.geo.oy = 7

====
